---- MODULE Spec2Model ----
(***************************************************************************)
(* Model of the mgt-search-results component                               *)
(* (packages/mgt-components/src/components/mgt-search-results).            *)
(*                                                                         *)
(* loadState is an async method: every await is a point where the method   *)
(* is suspended and other work runs.  One action models one run of the     *)
(* method from a suspension point to the next one (or to its end).         *)
(***************************************************************************)
EXTENDS Integers, Sequences, FiniteSets, TLC

(***************************************************************************)
(* Bounds of the model.                                                    *)
(***************************************************************************)
MaxTime == 2
MaxHits == 3

\* Two executions of loadState may overlap.
LoadIds == {1, 2}

(***************************************************************************)
(* JavaScript values.                                                      *)
(***************************************************************************)
Null == [null |-> TRUE]
Undefined == [undefined |-> TRUE]

\* Query strings a user may type; "" is the falsy one.
Queries == {"", "a", "b"}

(***************************************************************************)
(* Search hits.  A hit's resource has an @odata.type, a size, a webUrl     *)
(* (of which only "ends in .aspx" matters) and, once augmented, a          *)
(* thumbnail.  NoThumbnail: the resource has no thumbnail field.           *)
(***************************************************************************)
NoThumbnail == [absent |-> TRUE]
EmptyObject == [empty |-> TRUE]

Hit(type, sz, aspx) == [type |-> type, size |-> sz, aspx |-> aspx, thumbnail |-> NoThumbnail]

DriveFile == Hit("driveItem", 1, FALSE)
DriveEmpty == Hit("driveItem", 0, FALSE)
ListPage == Hit("listItem", 0, TRUE)
ListFile == Hit("listItem", 1, FALSE)
ListEmpty == Hit("listItem", 0, FALSE)
SiteHit == Hit("site", 1, TRUE)

HitKinds == {DriveFile, DriveEmpty, ListPage, ListFile, ListEmpty, SiteHit}

RECURSIVE SeqsUpTo(_, _)
SeqsUpTo(S, n) ==
  IF n = 0 THEN {<<>>}
  ELSE LET shorter == SeqsUpTo(S, n - 1)
       IN shorter \cup {Append(s, x) : s \in {t \in shorter : Len(t) = n - 1}, x \in S}

\* What the search endpoint may answer: any list of at most MaxHits hits, or
\* a hits container without a hits array (no result).
\* A hits container has a total and a moreResultsAvailable flag as well.
HitsContainer(hits, total, more) ==
  [hasHits |-> TRUE, hits |-> hits, total |-> total, moreResultsAvailable |-> more]
NoHits == [hasHits |-> FALSE, hits |-> <<>>, total |-> 0, moreResultsAvailable |-> FALSE]
HitsContainers ==
  {HitsContainer(hits, Len(hits), FALSE) : hits \in SeqsUpTo(HitKinds, MaxHits)} \cup {NoHits}

VARIABLES
  \* properties of the component
  queryString, currentPage, size, version, entityTypes, scopes, fields, enableTopResults,
  contentSources, queryTemplate, pagingMax, cacheEnabled, cacheInvalidationPeriod,
  fetchThumbnail, isRefreshing, response, error,
  \* the loading flag of the base class, which setLoadingState sets
  isLoadingState,
  \* the calls of requestStateUpdate made by the step just taken: their force
  \* arguments, in order
  requested,
  \* detail.response of the last dataChange event, Null before the first
  dataChange,
  \* the environment: the global provider, CacheService.config, the responses
  \* store, the clock, and what the search endpoint answers to a query string
  providerState, config, store, now, catalog,
  \* the executions of loadState
  loads

props == <<queryString, currentPage, size, version, entityTypes, scopes, fields, enableTopResults,
           contentSources, queryTemplate, pagingMax, cacheEnabled, cacheInvalidationPeriod,
           fetchThumbnail>>
env == <<providerState, config, catalog>>
vars == <<props, isRefreshing, response, error, isLoadingState, requested, dataChange,
          env, store, now, loads>>

SEARCH_ENDPOINT == "/search/query"
DEFAULT_FIELDS == <<"webUrl", "lastModifiedBy", "lastModifiedDateTime", "summary", "displayName", "name">>

(***************************************************************************)
(* Builders of the request and of the cache key.  A property whose value   *)
(* is undefined is dropped by JSON.stringify, so an absent property and an *)
(* undefined one give the same key: both are Undefined here.               *)
(***************************************************************************)
\* The properties are read when loadState starts; a setter that starts a load
\* passes the values it has just stored (q, page).
from(page) == (page - 1) * size

getFields == IF fields # Undefined THEN [v |-> DEFAULT_FIELDS \o fields.v] ELSE Undefined

getRequestOptions(q, page) ==
  [entityTypes |-> entityTypes,
   queryString |-> q,
   from |-> IF from(page) # 0 THEN [v |-> from(page)] ELSE Undefined,
   size |-> IF size # 0 THEN [v |-> size] ELSE Undefined,
   fields |-> getFields,
   enableTopResults |-> IF enableTopResults THEN [v |-> TRUE] ELSE Undefined,
   contentSources |-> IF \E i \in DOMAIN entityTypes : entityTypes[i] = "externalItem" THEN [v |-> contentSources] ELSE Undefined,
   queryTemplate |-> IF version = "beta" /\ queryTemplate # "" THEN [v |-> queryTemplate] ELSE Undefined]

\* JSON.stringify of the request options: the properties in the order in
\* which getRequestOptions inserts them (queryString and queryTemplate inside
\* query), a property whose value is undefined left out.
JsonRequest(requestOptions) ==
  LET Property(name) == IF requestOptions[name] # Undefined
                        THEN << <<name, requestOptions[name].v>> >>
                        ELSE <<>>
  IN << <<"entityTypes", requestOptions.entityTypes>>,
        <<"query", << <<"queryString", requestOptions.queryString>> >> \o Property("queryTemplate")>> >>
     \o Property("from") \o Property("size") \o Property("fields")
     \o Property("enableTopResults") \o Property("contentSources")

\* CacheKey with the scopes of the component as a part of the key
CacheKeyWithScopes(requestOptions) ==
  [endpoint |-> version \o SEARCH_ENDPOINT, requestOptions |-> JsonRequest(requestOptions),
   scopes |-> scopes]

\* lines 454-457
CacheKey(requestOptions) ==
  [endpoint |-> version \o SEARCH_ENDPOINT, requestOptions |-> JsonRequest(requestOptions)]

(***************************************************************************)
(* Cache configuration.                                                    *)
(***************************************************************************)
\* getResponseInvalidationTime without the fallbacks
getResponseInvalidationTimeOfComponent(currentInvalidationPeriod) == currentInvalidationPeriod

\* lines 60-63
getResponseInvalidationTime(currentInvalidationPeriod) ==
  IF currentInvalidationPeriod # 0 THEN currentInvalidationPeriod
  ELSE IF config.response.invalidationPeriod # 0 THEN config.response.invalidationPeriod
  ELSE config.defaultInvalidationPeriod

getIsResponseCacheEnabled == config.response.isEnabled /\ config.isEnabled

\* shouldUpdateCache without the flag of the component
shouldUpdateCacheGlobally == getIsResponseCacheEnabled

\* lines 1119-1121
shouldUpdateCache == getIsResponseCacheEnabled /\ cacheEnabled

\* shouldRetrieveCache without the test of isRefreshing
shouldRetrieveCacheAlways(thisIsRefreshing) == getIsResponseCacheEnabled /\ cacheEnabled

\* lines 1111-1113, with this.isRefreshing as the method finds it
shouldRetrieveCache(thisIsRefreshing) ==
  getIsResponseCacheEnabled /\ cacheEnabled /\ ~thisIsRefreshing

\* isFresh with the comparison made inclusive: an entry as old as the period
\* would still be used
isFreshInclusive(result, period, t) == period >= t - result.timeCached

\* line 463: the entry is used while the period exceeds its age
isFresh(result, period, t) == period > t - result.timeCached

(***************************************************************************)
(* The responses store (CacheStore.getValue / putValue) and JSON.          *)
(* JSON.stringify drops a property whose value is undefined, so a          *)
(* thumbnail {url: undefined} is stored, and read back, as {}.             *)
(***************************************************************************)
Malformed == [malformed |-> TRUE]

JsonHit(h) == IF h.thumbnail = [url |-> Undefined] THEN [h EXCEPT !.thumbnail = EmptyObject] ELSE h

JsonValue(r) == [r EXCEPT !.hits = [i \in DOMAIN r.hits |-> JsonHit(r.hits[i])]]

Stringify(r) == [text |-> JsonValue(r)]

CanParse(payload) == payload # Malformed /\ payload # Undefined

Parse(payload) == payload.text

getValue(key) == IF key \in DOMAIN store THEN store[key] ELSE Null

putValue(key, item) == (key :> [response |-> item.response, timeCached |-> now]) @@ store

equals(o1, o2) == o1 = o2

(***************************************************************************)
(* The Graph: the search endpoint and the two thumbnail endpoints.         *)
(***************************************************************************)
ServerResponse(requestOptions) ==
  LET hitsContainer == catalog[requestOptions.queryString] IN
  [request |-> requestOptions,
   hasHits |-> hitsContainer.hasHits,
   hits |-> hitsContainer.hits,
   total |-> hitsContainer.total,
   moreResultsAvailable |-> hitsContainer.moreResultsAvailable]

Url(kind, id) == [kind |-> kind, id |-> id]

\* The body a thumbnail endpoint answers to the request with this id: the
\* drive endpoint a thumbnail with a url, the pages endpoint a page with a
\* thumbnailWebUrl, or an error body when the list item is no page.
BatchContent(path, id) ==
  IF path.endpoint = "thumbnails"
  THEN [url |-> Url("thumbnail", id), thumbnailWebUrl |-> Undefined]
  ELSE IF path.page THEN [url |-> Undefined, thumbnailWebUrl |-> Url("page", id)]
  ELSE [url |-> Undefined, thumbnailWebUrl |-> Undefined]

\* Batch.executeAll, resolved: a response for every request of the batch
executeAll(batch) == [id \in DOMAIN batch |-> [content |-> BatchContent(batch[id], id)]]

(***************************************************************************)
(* Thumbnail augmentation, lines 478-518.  Request ids are the 0-based     *)
(* indices of the hits.                                                    *)
(***************************************************************************)
\* isEligible without the web-page alternative
isEligibleBySize(resource) ==
  /\ resource.size > 0
  /\ (resource.type = "driveItem" \/ resource.type = "listItem")

isEligible(resource) ==
  /\ (resource.size > 0 \/ resource.aspx)
  /\ (resource.type = "driveItem" \/ resource.type = "listItem")

\* lines 482-501: the requests added to thumbnailBatch (beta = FALSE) and to
\* thumbnailBatchBeta (beta = TRUE)
BatchRequests(hits, beta) ==
  LET ids == {i \in 0..(Len(hits) - 1) :
                /\ isEligible(hits[i + 1])
                /\ (hits[i + 1].type = "listItem") = beta}
  IN [i \in ids |-> IF beta THEN [endpoint |-> "pages", page |-> hits[i + 1].aspx]
                             ELSE [endpoint |-> "thumbnails", page |-> FALSE]]

\* lines 511-514
Thumbnail(result, value) ==
  IF result.type = "listItem" THEN [url |-> value.content.thumbnailWebUrl]
  ELSE [url |-> value.content.url]

\* lines 507-518
augmentResponse(r, thumbnailResponse) ==
  [r EXCEPT !.hits = [i \in DOMAIN r.hits |->
     IF (i - 1) \in DOMAIN thumbnailResponse
     THEN [r.hits[i] EXCEPT !.thumbnail = Thumbnail(r.hits[i], thumbnailResponse[i - 1])]
     ELSE r.hits[i]]]

(***************************************************************************)
(* One execution of loadState: its position (pc), its local variables      *)
(* (requestOptions, key, response, the two batches) and a record of what   *)
(* it has done so far, which the properties below read.                    *)
(***************************************************************************)
NoBatch == [i \in {} |-> Null]

IdleLoad ==
  [pc |-> "idle", requestOptions |-> Null, key |-> Null, response |-> Null,
   thumbnailBatch |-> NoBatch, thumbnailBatchBeta |-> NoBatch,
   scopes |-> Null,      \* the scopes the primary request is sent with
   settings |-> Null,    \* the properties of the component when it started
   refreshing |-> FALSE, \* this.isRefreshing when it started
   posts |-> 0,          \* primary requests issued
   primary |-> Null,     \* the response as the primary request returned it
   result |-> Null,      \* the entry the store held when cache.getValue settled
   age |-> 0,            \* Date.now() - result.timeCached at that time
   period |-> 0,         \* the invalidation period in force at that time
   settled |-> {},       \* the awaits that have settled: name and outcome
   fired |-> Null]       \* the detail of the dataChange event it fired

Settled(ld, what, outcome) == [ld EXCEPT !.settled = @ \cup {<<what, outcome>>}]

Err(what) == [error |-> what]

\* Finish without lines 545-547: the error stays when a response is held
FinishKeepingError(l, ld, thisResponse, e) ==
  /\ response' = thisResponse
  /\ error' = e
  /\ isRefreshing' = FALSE
  /\ dataChange' = response'
  /\ loads' = [loads EXCEPT ![l] =
       [ld EXCEPT !.pc = "done", !.fired = [response |-> response', error |-> error']]]

\* lines 545-552, reached with `thisResponse` in this.response and `e` in
\* this.error
Finish(l, ld, thisResponse, e) ==
  /\ response' = thisResponse
  /\ error' = IF thisResponse # Null THEN Null ELSE e
  /\ isRefreshing' = FALSE
  /\ dataChange' = response'
  /\ loads' = [loads EXCEPT ![l] =
       [ld EXCEPT !.pc = "done", !.fired = [response |-> response', error |-> error']]]

\* lines 541-543: the catch of loadState
Catch(l, ld, e) == Finish(l, ld, response, e) /\ UNCHANGED store

\* Commit that builds the key again, from the properties as they are then
CommitUnderCurrentKey(l, ld) ==
  LET committed == IF ~equals(response, ld.response) THEN ld.response ELSE response IN
  /\ store' = IF shouldUpdateCache /\ ld.response # Null
               THEN putValue(CacheKey(getRequestOptions(queryString, currentPage)),
                             [response |-> Stringify(ld.response)])
               ELSE store
  /\ Finish(l, ld, committed, Null)

\* Commit that stores the response as the primary request returned it
CommitStoringPrimary(l, ld) ==
  LET committed == IF ~equals(response, ld.response) THEN ld.response ELSE response IN
  /\ store' = IF shouldUpdateCache /\ ld.response # Null
               THEN putValue(ld.key, [response |-> Stringify(ld.primary)])
               ELSE store
  /\ Finish(l, ld, committed, Null)

\* Commit that keeps a response the component already holds
CommitUnlessHeld(l, ld) ==
  LET committed == IF response = Null THEN ld.response ELSE response IN
  /\ store' = IF shouldUpdateCache /\ ld.response # Null
               THEN putValue(ld.key, [response |-> Stringify(ld.response)])
               ELSE store
  /\ Finish(l, ld, committed, Null)

\* lines 528-540: commit the fetched response and write it to the store
Commit(l, ld) ==
  LET committed == IF ~equals(response, ld.response) THEN ld.response ELSE response IN
  /\ store' = IF shouldUpdateCache /\ ld.response # Null
               THEN putValue(ld.key, [response |-> Stringify(ld.response)])
               ELSE store
  /\ Finish(l, ld, committed, Null)

\* The record of an execution lasts until the next one starts.
Forget(ls) == [k \in LoadIds |-> IF ls[k].pc = "done" THEN IdleLoad ELSE ls[k]]

\* lines 468-476: the primary request, with the scopes of the component as
\* middleware options when it has scopes
Posted(ld) ==
  [ld EXCEPT !.pc = "post", !.posts = @ + 1,
             !.scopes = IF Len(scopes) > 0 THEN [v |-> scopes] ELSE Undefined]

\* lines 468-476: issue the primary request
Post(l, ld, ls) ==
  /\ loads' = [ls EXCEPT ![l] = Posted(ld)]
  /\ UNCHANGED <<response, isRefreshing, store, dataChange>>

\* The properties that a load finds; q and page stand for queryString and
\* currentPage.
Settings(q, page) ==
  [version |-> version, entityTypes |-> entityTypes, scopes |-> scopes,
   queryString |-> q, currentPage |-> page, size |-> size, fields |-> fields,
   enableTopResults |-> enableTopResults, contentSources |-> contentSources,
   queryTemplate |-> queryTemplate]

\* lines 441-466, up to the first await.  q and page are the values of
\* queryString and currentPage when the method runs, thisResponse and
\* thisIsRefreshing those of this.response and this.isRefreshing.
LoadStateFrom(l, q, page, thisResponse, thisIsRefreshing) ==
  LET ld == [IdleLoad EXCEPT !.settings = Settings(q, page),
                             !.refreshing = thisIsRefreshing] IN
  IF providerState # "SignedIn"
  THEN /\ error' = Null
       /\ response' = thisResponse
       /\ isRefreshing' = thisIsRefreshing
       /\ loads' = [Forget(loads) EXCEPT ![l] = [ld EXCEPT !.pc = "done"]]
       /\ UNCHANGED <<store, dataChange>>
  ELSE IF q = ""
  THEN /\ response' = Null
       /\ error' = Null
       /\ isRefreshing' = FALSE
       /\ loads' = [Forget(loads) EXCEPT ![l] =
            [ld EXCEPT !.pc = "done", !.fired = [response |-> Null, error |-> Null]]]
       /\ dataChange' = Null
       /\ UNCHANGED store
  ELSE LET requestOptions == getRequestOptions(q, page)
           started == [ld EXCEPT !.requestOptions = requestOptions,
                                 !.key = CacheKey(requestOptions)]
       IN /\ error' = Null
          /\ response' = thisResponse
          /\ isRefreshing' = thisIsRefreshing
          /\ loads' = [Forget(loads) EXCEPT ![l] =
               IF shouldRetrieveCache(thisIsRefreshing)
               THEN [started EXCEPT !.pc = "getValue"]
               ELSE Posted(started)]
          /\ UNCHANGED <<store, dataChange>>

\* loadState entered with the component as it is
StartLoadState(l, q, page) == LoadStateFrom(l, q, page, response, isRefreshing)

\* An execution takes the first slot that holds no execution in flight.
Free(l) ==
  /\ loads[l].pc \in {"idle", "done"}
  /\ \A k \in LoadIds : k < l => loads[k].pc \notin {"idle", "done"}

\* loadState() is called with the properties as they are
LoadState(l) ==
  /\ Free(l)
  /\ StartLoadState(l, queryString, currentPage)
  /\ UNCHANGED <<props, env, now, isLoadingState>>
  /\ requested' = <<>>

\* What the store holds for the key of the load, and how old it is, noted
\* when cache.getValue settles.
Read(ld) ==
  LET result == getValue(ld.key) IN
  [ld EXCEPT !.result = result,
             !.age = IF result # Null THEN now - result.timeCached ELSE 0,
             !.period = getResponseInvalidationTime(cacheInvalidationPeriod)]

\* lines 462-466: cache.getValue settles
GetValueSettled(l) ==
  /\ loads[l].pc = "getValue"
  /\ \/ Catch(l, Read(Settled(loads[l], "getValue", "rejected")), Err("getValue"))
     \/ LET result == getValue(loads[l].key)
            period == getResponseInvalidationTime(cacheInvalidationPeriod)
            ld == Read(Settled(loads[l], "getValue", "resolved"))
        IN IF result # Null /\ isFresh(result, period, now)
           THEN IF CanParse(result.response)
                THEN /\ Finish(l, [ld EXCEPT !.response = Parse(result.response)],
                               IF ~equals(response, Parse(result.response))
                               THEN Parse(result.response) ELSE response, error)
                     /\ UNCHANGED store
                ELSE Catch(l, ld, Err("SyntaxError"))
           ELSE /\ Post(l, ld, loads)
                /\ UNCHANGED error
  /\ UNCHANGED <<props, env, now, isLoadingState>>
  /\ requested' = <<>>

\* lines 476-501: the primary request settles
PostSettled(l) ==
  /\ loads[l].pc = "post"
  /\ \/ Catch(l, Settled(loads[l], "post", "rejected"), Err("post"))
     \/ LET r == ServerResponse(loads[l].requestOptions)
            ld == [Settled(loads[l], "post", "resolved") EXCEPT !.response = r, !.primary = r]
        IN IF fetchThumbnail
           THEN IF ~r.hasHits
                THEN Catch(l, ld, Err("TypeError"))
                ELSE /\ loads' = [loads EXCEPT ![l] =
                          [ld EXCEPT !.pc = "executeAll",
                                     !.thumbnailBatch = BatchRequests(r.hits, FALSE),
                                     !.thumbnailBatchBeta = BatchRequests(r.hits, TRUE)]]
                     /\ UNCHANGED <<response, error, isRefreshing, store, dataChange>>
           ELSE Commit(l, ld)
  /\ UNCHANGED <<props, env, now, isLoadingState>>
  /\ requested' = <<>>

\* BatchRejected without the inner try: the rejection reaches the catch of
\* loadState
BatchRejectedUncaught(l, ld) == Catch(l, ld, Err("executeAll"))

\* lines 523-525: the catch around the two batches does nothing, and line 528
\* follows
BatchRejected(l, ld) == Commit(l, ld)

\* An empty batch sends nothing and resolves with an empty map.
MayReject(batch) == DOMAIN batch # {}

\* line 521: thumbnailBatch.executeAll() settles
ExecuteAllSettled(l) ==
  /\ loads[l].pc = "executeAll"
  /\ \/ /\ MayReject(loads[l].thumbnailBatch)
        /\ BatchRejected(l, Settled(loads[l], "executeAll", "rejected"))
     \/ LET ld == Settled(loads[l], "executeAll", "resolved") IN
        /\ loads' = [loads EXCEPT ![l] =
              [ld EXCEPT !.pc = "executeAllBeta",
                         !.response = augmentResponse(ld.response, executeAll(ld.thumbnailBatch))]]
        /\ UNCHANGED <<response, error, isRefreshing, store, dataChange>>
  /\ UNCHANGED <<props, env, now, isLoadingState>>
  /\ requested' = <<>>

\* line 522: thumbnailBatchBeta.executeAll() settles
ExecuteAllBetaSettled(l) ==
  /\ loads[l].pc = "executeAllBeta"
  /\ \/ /\ MayReject(loads[l].thumbnailBatchBeta)
        /\ BatchRejected(l, Settled(loads[l], "executeAllBeta", "rejected"))
     \/ LET ld == Settled(loads[l], "executeAllBeta", "resolved") IN
        Commit(l, [ld EXCEPT !.response =
                     augmentResponse(ld.response, executeAll(ld.thumbnailBatchBeta))])
  /\ UNCHANGED <<props, env, now, isLoadingState>>
  /\ requested' = <<>>

\* setLoadingState of the base class
setLoadingState(value) == isLoadingState' = value

\* requestStateUpdate(force) of the base class, called with thisResponse in
\* this.response and thisIsRefreshing in this.isRefreshing: it runs
\* loadState at once when the provider is signed in.  q and page stand for
\* queryString and currentPage.
requestStateUpdate(force, l, q, page, thisResponse, thisIsRefreshing) ==
  /\ requested' = <<force>>
  /\ IF providerState = "SignedIn"
     THEN LoadStateFrom(l, q, page, thisResponse, thisIsRefreshing)
     ELSE /\ response' = thisResponse
          /\ isRefreshing' = thisIsRefreshing
          /\ UNCHANGED <<error, store, loads, dataChange>>

\* SetQueryString without the comparison with the current value
SetQueryStringAlways(value, l) ==
  /\ Free(l)
  /\ queryString' = value
  /\ currentPage' = 1
  /\ setLoadingState(TRUE)
  /\ requestStateUpdate(TRUE, l, value, 1, response, isRefreshing)
  /\ UNCHANGED <<size, version, entityTypes, scopes, fields, enableTopResults,
                 contentSources, queryTemplate, pagingMax, cacheEnabled,
                 cacheInvalidationPeriod, fetchThumbnail>>
  /\ UNCHANGED <<env, now>>

\* lines 120-127: the queryString setter
SetQueryString(value, l) ==
  /\ Free(l)
  /\ IF queryString # value
     THEN /\ queryString' = value
          /\ currentPage' = 1
          /\ setLoadingState(TRUE)
          /\ requestStateUpdate(TRUE, l, value, 1, response, isRefreshing)
     ELSE /\ requested' = <<>>
          /\ UNCHANGED <<queryString, currentPage, isLoadingState, response, error,
                         isRefreshing, store, loads, dataChange>>
  /\ UNCHANGED <<size, version, entityTypes, scopes, fields, enableTopResults,
                 contentSources, queryTemplate, pagingMax, cacheEnabled,
                 cacheInvalidationPeriod, fetchThumbnail>>
  /\ UNCHANGED <<env, now>>

\* lines 373-379 and 387-389: refresh(hardRefresh)
Refresh(hardRefresh, l) ==
  /\ Free(l)
  /\ LET cleared == IF hardRefresh THEN Null ELSE response IN
     requestStateUpdate(hardRefresh, l, queryString, currentPage, cleared, TRUE)
  /\ UNCHANGED <<props, env, now, isLoadingState>>

\* Date.now() advances
Tick ==
  /\ now < MaxTime
  /\ now' = now + 1
  /\ UNCHANGED <<props, isRefreshing, response, error, env, store, loads>>
  /\ UNCHANGED <<isLoadingState, dataChange>>
  /\ requested' = <<>>

(***************************************************************************)
(* The component after construction (lines 89-340), in an environment.     *)
(***************************************************************************)
InitComponent ==
  /\ queryString = ""
  /\ currentPage = 1
  /\ version = "v1.0"
  /\ entityTypes = <<"driveItem", "listItem", "site">>
  /\ scopes = <<>>
  /\ fields = Undefined
  /\ enableTopResults = FALSE
  /\ contentSources = <<>>
  /\ queryTemplate = ""
  /\ isRefreshing = FALSE
  /\ response = Null
  /\ error = Null
  /\ isLoadingState = FALSE
  /\ requested = <<>>
  /\ dataChange = Null
  /\ loads = [l \in LoadIds |-> IdleLoad]
  /\ now = 0

Periods == {0, 2}

Init ==
  /\ InitComponent
  /\ size = 10
  /\ pagingMax = 7
  /\ cacheEnabled \in BOOLEAN
  /\ cacheInvalidationPeriod \in Periods
  /\ fetchThumbnail \in BOOLEAN
  /\ providerState \in {"SignedIn", "SignedOut"}
  /\ config \in [isEnabled : {TRUE},
                  response : [isEnabled : {TRUE}, invalidationPeriod : {0, 1}],
                  defaultInvalidationPeriod : {2}]
  /\ catalog = [q \in {"a", "b"} |-> IF q = "a" THEN HitsContainer(<<DriveFile, ListPage>>, 2, FALSE) ELSE NoHits]
  /\ store \in {NoBatch,
                 CacheKey(getRequestOptions("a", 1)) :> [response |-> Malformed, timeCached |-> 0]}

Next ==
  \/ \E l \in LoadIds : LoadState(l)
  \/ \E l \in LoadIds : GetValueSettled(l)
  \/ \E l \in LoadIds : PostSettled(l)
  \/ \E l \in LoadIds : ExecuteAllSettled(l)
  \/ \E l \in LoadIds : ExecuteAllBetaSettled(l)
  \/ \E value \in Queries \ {queryString}, l \in LoadIds : SetQueryString(value, l)
  \/ Tick

Spec == Init /\ [][Next]_vars

(***************************************************************************)
(* Thumbnail augmentation over every answer of the search endpoint: one    *)
(* load of the query "a" with fetchThumbnail on.                           *)
(***************************************************************************)
InitThumb ==
  /\ InitComponent
  /\ size = 10
  /\ pagingMax = 7
  /\ cacheEnabled = FALSE
  /\ cacheInvalidationPeriod = 0
  /\ fetchThumbnail = TRUE
  /\ providerState = "SignedIn"
  /\ config = [isEnabled |-> TRUE,
               response |-> [isEnabled |-> TRUE, invalidationPeriod |-> 0],
               defaultInvalidationPeriod |-> 2]
  /\ catalog \in [{"a"} -> HitsContainers]
  /\ store = NoBatch

NextThumb ==
  \/ queryString = "" /\ SetQueryString("a", 1)
  \/ PostSettled(1)
  \/ ExecuteAllSettled(1)
  \/ ExecuteAllBetaSettled(1)

SpecThumb == InitThumb /\ [][NextThumb]_vars

(***************************************************************************)
(* Paging, lines 642-836.  The footer is rendered from this.response on    *)
(* every render, so what is rendered is a function of the state.           *)
(***************************************************************************)
Floor2(n) == n \div 2

Ceil(n, d) == (n + d - 1) \div d

\* pagingRequired without the signal of the backend
pagingRequiredByCount(r) ==
  /\ r # Null
  /\ r.hasHits
  /\ currentPage * size < r.total

\* pagingRequired with the comparison made inclusive
pagingRequiredInclusive(r) ==
  /\ r # Null
  /\ r.hasHits
  /\ (r.moreResultsAvailable \/ currentPage * size <= r.total)

\* line 663; this.response?.value[0]?.hitsContainers[0] is undefined when
\* there is no response
pagingRequired(r) ==
  /\ r # Null
  /\ r.hasHits
  /\ (r.moreResultsAvailable \/ currentPage * size < r.total)

\* lines 672-680
getFirstPage ==
  LET medianPage == currentPage - Floor2(pagingMax) - 1 IN
  IF medianPage >= Floor2(pagingMax) THEN medianPage ELSE 0

\* lines 686-694: the loop that stops at the last page
RECURSIVE ClampedPages(_, _, _)
ClampedPages(i, pages, totalResults) ==
  IF /\ i < Ceil(totalResults, size)
     /\ i < pagingMax + (currentPage - 1)
     /\ Len(pages) < pagingMax - 2
  THEN ClampedPages(i + 1, Append(pages, i + 1), totalResults)
  ELSE pages

\* lines 696-698
FirstPages(firstPage) == [k \in 1..(pagingMax - firstPage) |-> firstPage + k]

\* lines 671-702
getActivePages(totalResults) ==
  LET firstPage == getFirstPage IN
  IF firstPage + 1 > pagingMax - currentPage \/ pagingMax = currentPage
  THEN ClampedPages(firstPage + 1, <<>>, totalResults)
  ELSE FirstPages(firstPage)

\* line 835
isLastPage == currentPage = Ceil(response.total, size)

\* What a render function returns when it renders nothing.
Nothing == [nothing |-> TRUE]

\* renderPreviousPage with the button kept back until the window has moved
renderPreviousPagePastWindow == IF currentPage > pagingMax THEN [title |-> "Back"] ELSE Nothing

\* lines 765-776
renderPreviousPage == IF currentPage > 1 THEN [title |-> "Back"] ELSE Nothing

\* lines 782-793
renderNextPage == IF ~isLastPage THEN [title |-> "Next"] ELSE Nothing

\* lines 728-751: the separate page 1 button and the "..." button, whose
\* click is onPageClick(currentPage - Math.ceil(pagingMax / 2))
renderFirstPage(pages) ==
  IF \E i \in DOMAIN pages : pages[i] = 1 THEN Nothing
  ELSE [number |-> 1,
        dot |-> IF currentPage - Floor2(pagingMax) > 0
                THEN [onPageClick |-> currentPage - Ceil(pagingMax, 2)]
                ELSE Nothing]

\* lines 642-655; undefined when paging is not required
renderFooter(hitsContainer) ==
  IF pagingRequired(hitsContainer)
  THEN LET pages == getActivePages(hitsContainer.total) IN
       [previous |-> renderPreviousPage,
        first |-> renderFirstPage(pages),
        pages |-> pages,
        next |-> renderNextPage]
  ELSE Undefined

\* lines 345-350: the currentPage setter
SetCurrentPage(value, l) ==
  /\ currentPage # value
  /\ Free(l)
  /\ currentPage' = value
  /\ requestStateUpdate(TRUE, l, queryString, value, response, isRefreshing)
  /\ UNCHANGED isLoadingState
  /\ UNCHANGED <<queryString, size, version, entityTypes, scopes, fields,
                 enableTopResults, contentSources, queryTemplate, pagingMax, cacheEnabled,
                 cacheInvalidationPeriod, fetchThumbnail>>
  /\ UNCHANGED <<env, now>>

\* lines 709-721 and 799-802: a click on a page button of the window
OnPageClick(pageNumber, l) ==
  /\ pagingRequired(response)
  /\ \E i \in DOMAIN getActivePages(response.total) :
        getActivePages(response.total)[i] = pageNumber
  /\ SetCurrentPage(pageNumber, l)

\* lines 728-735 and 807-810: a click on the separate page 1 button
OnFirstPageClick(l) ==
  /\ pagingRequired(response)
  /\ \A i \in DOMAIN getActivePages(response.total) : getActivePages(response.total)[i] # 1
  /\ SetCurrentPage(1, l)

\* lines 737-747: a click on the "..." button
OnDotClick(l) ==
  /\ pagingRequired(response)
  /\ \A i \in DOMAIN getActivePages(response.total) : getActivePages(response.total)[i] # 1
  /\ currentPage - Floor2(pagingMax) > 0
  /\ SetCurrentPage(currentPage - (pagingMax - Floor2(pagingMax)), l)

\* lines 765-776 and 816-819: a click on the previous button
OnPageBackClick(l) ==
  /\ pagingRequired(response)
  /\ currentPage > 1
  /\ SetCurrentPage(currentPage - 1, l)

\* lines 782-793 and 825-828: a click on the next button
OnPageNextClick(l) ==
  /\ pagingRequired(response)
  /\ ~isLastPage
  /\ SetCurrentPage(currentPage + 1, l)

(***************************************************************************)
(* Paging over the totals, page sizes and window sizes below, for one      *)
(* query whose answer has the chosen total.                                *)
(***************************************************************************)
MaxTotal == 12
MaxPagingMax == 8
MaxPage == 7

Sizes == {2, 10}
Totals == (0..MaxTotal) \cup {95}

InitPaging ==
  /\ InitComponent
  /\ size \in Sizes
  /\ pagingMax \in 0..MaxPagingMax
  /\ cacheEnabled = FALSE
  /\ cacheInvalidationPeriod = 0
  /\ fetchThumbnail = FALSE
  /\ providerState = "SignedIn"
  /\ config = [isEnabled |-> TRUE,
               response |-> [isEnabled |-> TRUE, invalidationPeriod |-> 0],
               defaultInvalidationPeriod |-> 2]
  /\ catalog \in [{"a"} -> {HitsContainer(<<>>, total, more) : total \in Totals, more \in BOOLEAN}]
  /\ store = NoBatch

\* The page is set, and the buttons are clicked, between the loads.
NextPaging ==
  \/ queryString = "" /\ SetQueryString("a", 1)
  \/ PostSettled(1)
  \/ \E value \in 1..MaxPage : queryString # "" /\ SetCurrentPage(value, 1)
  \/ \E pageNumber \in 1..MaxPage : OnPageClick(pageNumber, 1)
  \/ OnFirstPageClick(1)
  \/ OnDotClick(1)
  \/ OnPageBackClick(1)
  \/ OnPageNextClick(1) /\ currentPage' \in 1..MaxPage

SpecPaging == InitPaging /\ [][NextPaging]_vars

\* The page changes only by clicks on the paging controls that the footer
\* renders.
NextClicks ==
  \/ queryString = "" /\ SetQueryString("a", 1)
  \/ PostSettled(1)
  \/ \E pageNumber \in 1..MaxPage : OnPageClick(pageNumber, 1)
  \/ OnFirstPageClick(1)
  \/ OnDotClick(1)
  \/ OnPageBackClick(1)
  \/ OnPageNextClick(1) /\ currentPage' \in 1..MaxPage

SpecClicks == InitPaging /\ [][NextClicks]_vars

(***************************************************************************)
(* The cache key.  The properties below are plain properties: assigning    *)
(* one starts no load.  The properties are assigned before the first load; *)
(* the version and the scopes are assigned again while it is in flight,    *)
(* and a second load starts.                                               *)
(***************************************************************************)
MAX_PAGE_SIZE == 1000

\* lines 197-202: the version property is assigned
SetVersion(value) ==
  /\ version # value
  /\ version' = value
  /\ UNCHANGED <<queryString, currentPage, size, entityTypes, scopes, fields, enableTopResults,
                 contentSources, queryTemplate, pagingMax, cacheEnabled, cacheInvalidationPeriod, fetchThumbnail>>
  /\ UNCHANGED <<isRefreshing, response, error, env, store, now, loads>>
  /\ UNCHANGED <<isLoadingState, dataChange>>
  /\ requested' = <<>>

\* lines 167-174: the scopes property is assigned
SetScopes(value) ==
  /\ scopes # value
  /\ scopes' = value
  /\ UNCHANGED <<queryString, currentPage, size, version, entityTypes, fields, enableTopResults,
                 contentSources, queryTemplate, pagingMax, cacheEnabled, cacheInvalidationPeriod, fetchThumbnail>>
  /\ UNCHANGED <<isRefreshing, response, error, env, store, now, loads>>
  /\ UNCHANGED <<isLoadingState, dataChange>>
  /\ requested' = <<>>

\* lines 133-137: the queryTemplate property is assigned
SetQueryTemplate(value) ==
  /\ queryTemplate # value
  /\ queryTemplate' = value
  /\ UNCHANGED <<queryString, currentPage, size, version, entityTypes, scopes, fields,
                 enableTopResults, contentSources, pagingMax, cacheEnabled, cacheInvalidationPeriod, fetchThumbnail>>
  /\ UNCHANGED <<isRefreshing, response, error, env, store, now, loads>>
  /\ UNCHANGED <<isLoadingState, dataChange>>
  /\ requested' = <<>>

\* lines 271-278: the fields property is assigned
SetFields(value) ==
  /\ fields # value
  /\ fields' = value
  /\ UNCHANGED <<queryString, currentPage, size, version, entityTypes, scopes, enableTopResults,
                 contentSources, queryTemplate, pagingMax, cacheEnabled, cacheInvalidationPeriod, fetchThumbnail>>
  /\ UNCHANGED <<isRefreshing, response, error, env, store, now, loads>>
  /\ UNCHANGED <<isLoadingState, dataChange>>
  /\ requested' = <<>>

\* lines 154-159: the entityTypes setter
SetEntityTypes(value) ==
  /\ entityTypes # value
  /\ entityTypes' = value
  /\ UNCHANGED <<queryString, currentPage, size, version, scopes, fields, enableTopResults,
                 contentSources, queryTemplate, pagingMax, cacheEnabled, cacheInvalidationPeriod, fetchThumbnail>>
  /\ UNCHANGED <<isRefreshing, response, error, env, store, now, loads>>
  /\ UNCHANGED <<isLoadingState, dataChange>>
  /\ requested' = <<>>

\* lines 287-292: the enableTopResults property is assigned
SetEnableTopResults(value) ==
  /\ enableTopResults # value
  /\ enableTopResults' = value
  /\ UNCHANGED <<queryString, currentPage, size, version, entityTypes, scopes, fields,
                 contentSources, queryTemplate, pagingMax, cacheEnabled, cacheInvalidationPeriod, fetchThumbnail>>
  /\ UNCHANGED <<isRefreshing, response, error, env, store, now, loads>>
  /\ UNCHANGED <<isLoadingState, dataChange>>
  /\ requested' = <<>>

\* lines 182-189: the contentSources property is assigned
SetContentSources(value) ==
  /\ contentSources # value
  /\ contentSources' = value
  /\ UNCHANGED <<queryString, currentPage, size, version, entityTypes, scopes, fields,
                 enableTopResults, queryTemplate, pagingMax, cacheEnabled, cacheInvalidationPeriod, fetchThumbnail>>
  /\ UNCHANGED <<isRefreshing, response, error, env, store, now, loads>>
  /\ UNCHANGED <<isLoadingState, dataChange>>
  /\ requested' = <<>>

\* SetSize without the limit of MAX_PAGE_SIZE
SetSizeUncapped(value) ==
  /\ size' = value
  /\ size' # size
  /\ UNCHANGED <<queryString, currentPage, version, entityTypes, scopes, fields, enableTopResults,
                 contentSources, queryTemplate, pagingMax, cacheEnabled, cacheInvalidationPeriod, fetchThumbnail>>
  /\ UNCHANGED <<isRefreshing, response, error, env, store, now, loads>>
  /\ UNCHANGED <<isLoadingState, dataChange>>
  /\ requested' = <<>>

\* lines 230-236: the size setter
SetSize(value) ==
  /\ size' = IF value > MAX_PAGE_SIZE THEN MAX_PAGE_SIZE ELSE value
  /\ size' # size
  /\ UNCHANGED <<queryString, currentPage, version, entityTypes, scopes, fields, enableTopResults,
                 contentSources, queryTemplate, pagingMax, cacheEnabled, cacheInvalidationPeriod, fetchThumbnail>>
  /\ UNCHANGED <<isRefreshing, response, error, env, store, now, loads>>
  /\ UNCHANGED <<isLoadingState, dataChange>>
  /\ requested' = <<>>

Versions == {"v1.0", "beta"}
ScopeSets == {<<>>, <<"sites.read.all">>}
QueryTemplates == {"", "{searchTerms} author:me"}
FieldSets == {Undefined, [v |-> <<"title">>]}
EntityTypeSets == {<<"driveItem", "listItem", "site">>, <<"externalItem">>}
ContentSourceSets == {<<>>, <<"/external/connections/c">>}
SizeValues == {2, MAX_PAGE_SIZE - 1, MAX_PAGE_SIZE + 1}

InitKey ==
  /\ InitComponent
  /\ size = 10
  /\ pagingMax = 7
  /\ cacheEnabled = TRUE
  /\ cacheInvalidationPeriod = 2
  /\ fetchThumbnail = FALSE
  /\ providerState = "SignedIn"
  /\ config = [isEnabled |-> TRUE,
               response |-> [isEnabled |-> TRUE, invalidationPeriod |-> 0],
               defaultInvalidationPeriod |-> 2]
  /\ catalog = [q \in {"a", "b"} |-> IF q = "a" THEN HitsContainer(<<DriveFile>>, 1, FALSE) ELSE NoHits]
  /\ store = NoBatch

\* No load has started.
Unstarted == queryString = "" /\ loads[1].pc = "idle"

\* The first load is in flight and no second load has started.
FirstInFlight == loads[1].pc \in {"getValue", "post"} /\ loads[2].pc = "idle"

NextKey ==
  \/ queryString = "" /\ SetQueryString("a", 1)
  \/ \E value \in Versions : (Unstarted \/ FirstInFlight) /\ SetVersion(value)
  \/ \E value \in ScopeSets : (Unstarted \/ FirstInFlight) /\ SetScopes(value)
  \/ \E value \in QueryTemplates : Unstarted /\ SetQueryTemplate(value)
  \/ \E value \in FieldSets : Unstarted /\ SetFields(value)
  \/ \E value \in EntityTypeSets : Unstarted /\ SetEntityTypes(value)
  \/ \E value \in BOOLEAN : Unstarted /\ SetEnableTopResults(value)
  \/ \E value \in ContentSourceSets : Unstarted /\ SetContentSources(value)
  \/ \E value \in SizeValues : Unstarted /\ SetSize(value)
  \/ loads[2].pc = "idle" /\ LoadState(2)
  \/ loads[2].pc = "idle" /\ SetCurrentPage(2, 2)
  \/ loads[2].pc = "idle" /\ SetQueryString("b", 2)
  \/ \E l \in LoadIds : GetValueSettled(l)
  \/ \E l \in LoadIds : PostSettled(l)

SpecKey == InitKey /\ [][NextKey]_vars

(***************************************************************************)
(* refresh(), with the cache on or off, while the queries change, loads    *)
(* overlap and the entries age.                                            *)
(***************************************************************************)
InitRefresh ==
  /\ InitComponent
  /\ size = 10
  /\ pagingMax = 7
  /\ cacheEnabled \in BOOLEAN
  /\ cacheInvalidationPeriod = 2
  /\ fetchThumbnail = FALSE
  /\ providerState = "SignedIn"
  /\ config = [isEnabled |-> TRUE,
               response |-> [isEnabled |-> TRUE, invalidationPeriod |-> 0],
               defaultInvalidationPeriod |-> 2]
  /\ catalog = [q \in {"a", "b"} |-> IF q = "a" THEN HitsContainer(<<DriveFile>>, 1, FALSE) ELSE NoHits]
  /\ store = NoBatch

NextRefresh ==
  \/ \E value \in Queries \ {queryString}, l \in LoadIds : SetQueryString(value, l)
  \/ \E hardRefresh \in BOOLEAN, l \in LoadIds : Refresh(hardRefresh, l)
  \/ \E l \in LoadIds : LoadState(l)
  \/ \E l \in LoadIds : GetValueSettled(l)
  \/ \E l \in LoadIds : PostSettled(l)
  \/ Tick

SpecRefresh == InitRefresh /\ [][NextRefresh]_vars

(***************************************************************************)
(* The cache flags: the flag of the component, which may change while a    *)
(* load is in flight, and the two flags of CacheService.config.            *)
(***************************************************************************)
\* lines 301-306: the cacheEnabled property is assigned
SetCacheEnabled(value) ==
  /\ cacheEnabled # value
  /\ cacheEnabled' = value
  /\ UNCHANGED <<queryString, currentPage, size, version, entityTypes, scopes, fields,
                 enableTopResults, contentSources, queryTemplate, pagingMax,
                 cacheInvalidationPeriod, fetchThumbnail>>
  /\ UNCHANGED <<isRefreshing, response, error, env, store, now, loads>>
  /\ UNCHANGED <<isLoadingState, dataChange>>
  /\ requested' = <<>>

InitCacheFlags ==
  /\ InitComponent
  /\ size = 10
  /\ pagingMax = 7
  /\ cacheEnabled = FALSE
  /\ cacheInvalidationPeriod = 2
  /\ fetchThumbnail = FALSE
  /\ providerState = "SignedIn"
  /\ config \in [isEnabled : BOOLEAN,
                  response : [isEnabled : BOOLEAN, invalidationPeriod : {0}],
                  defaultInvalidationPeriod : {2}]
  /\ catalog = [q \in {"a", "b"} |-> IF q = "a" THEN HitsContainer(<<DriveFile>>, 1, FALSE) ELSE NoHits]
  /\ store = NoBatch

NextCacheFlags ==
  \/ \E value \in BOOLEAN : SetCacheEnabled(value)
  \/ \E value \in Queries \ {queryString}, l \in LoadIds : SetQueryString(value, l)
  \/ \E hardRefresh \in BOOLEAN, l \in LoadIds : Refresh(hardRefresh, l)
  \/ \E l \in LoadIds : LoadState(l)
  \/ \E l \in LoadIds : GetValueSettled(l)
  \/ \E l \in LoadIds : PostSettled(l)

SpecCacheFlags == InitCacheFlags /\ [][NextCacheFlags]_vars

(***************************************************************************)
(* What the setters, refresh() and the loads let the host see: the loading *)
(* flag, the requested updates and the dataChange events, while the        *)
(* provider signs in and out.                                              *)
(***************************************************************************)
\* lines 441-447: the state of the global provider, that loadState reads,
\* changes
ProviderStateChanged(state) ==
  /\ providerState # state
  /\ providerState' = state
  /\ requested' = <<>>
  /\ UNCHANGED <<props, isRefreshing, response, error, isLoadingState, dataChange>>
  /\ UNCHANGED <<config, catalog, store, now, loads>>

ProviderStates == {"SignedIn", "SignedOut"}
Pages == {1, 2}

InitEvents ==
  /\ InitComponent
  /\ size = 10
  /\ pagingMax = 7
  /\ cacheEnabled = FALSE
  /\ cacheInvalidationPeriod = 2
  /\ fetchThumbnail = FALSE
  /\ providerState \in ProviderStates
  /\ config = [isEnabled |-> TRUE,
               response |-> [isEnabled |-> TRUE, invalidationPeriod |-> 0],
               defaultInvalidationPeriod |-> 2]
  /\ catalog = [q \in {"a", "b"} |-> IF q = "a" THEN HitsContainer(<<DriveFile>>, 1, FALSE) ELSE NoHits]
  /\ store = NoBatch

NextEvents ==
  \/ \E value \in Queries, l \in LoadIds : SetQueryString(value, l)
  \/ \E value \in Pages, l \in LoadIds : SetCurrentPage(value, l)
  \/ \E hardRefresh \in BOOLEAN, l \in LoadIds : Refresh(hardRefresh, l)
  \/ \E l \in LoadIds : PostSettled(l)
  \/ \E state \in ProviderStates : ProviderStateChanged(state)

SpecEvents == InitEvents /\ [][NextEvents]_vars

(***************************************************************************)
(* Properties.                                                             *)
(***************************************************************************)
Has(ld, what, outcome) == <<what, outcome>> \in ld.settled
Reached(ld, what) == Has(ld, what, "resolved") \/ Has(ld, what, "rejected")

\* The store held a fresh entry for the load's key when its read settled.
HeldFresh(ld) == ld.result # Null /\ ld.age < ld.period

\* Some hit of the load's response has a thumbnail.
HasThumbnail(ld) == \E i \in DOMAIN ld.response.hits : ld.response.hits[i].thumbnail # NoThumbnail

\* The hits without their thumbnails.
Bare(hits) == [i \in DOMAIN hits |-> [hits[i] EXCEPT !.thumbnail = NoThumbnail]]

\* C1: an entry read from the store is trusted (used, with no primary request)
\* exactly when its age, now - timeCached, is strictly less than the
\* invalidation period; at an age equal to or above the period the primary
\* request is issued.
C1_TrustedIffFresh ==
  \A l \in LoadIds :
    LET ld == loads[l] IN
    (Has(ld, "getValue", "resolved") /\ ld.result # Null) =>
      /\ (ld.age < ld.period) <=> (ld.posts = 0)
      /\ (ld.age < ld.period /\ CanParse(ld.result.response)) =>
            (ld.pc = "done" /\ ld.response = Parse(ld.result.response))

\* C1 witness: one load used an entry one tick younger than the period while
\* another load found the entry exactly as old as the period and refetched.
C1_Witness ==
  \E l1, l2 \in LoadIds :
    /\ Has(loads[l1], "getValue", "resolved") /\ loads[l1].result # Null
    /\ loads[l1].age + 1 = loads[l1].period /\ loads[l1].posts = 0
    /\ loads[l1].pc = "done" /\ CanParse(loads[l1].result.response)
    /\ loads[l1].fired.response = Parse(loads[l1].result.response)
    /\ Has(loads[l2], "getValue", "resolved") /\ loads[l2].result # Null
    /\ loads[l2].age = loads[l2].period /\ loads[l2].posts = 1

\* C2: a load that read the cache issues the primary request if and only if
\* the store held no fresh entry for its key; a fresh entry is displayed with
\* no request, and after a stale or absent entry the displayed response is the
\* one fetched.
C2_RequestIffNoFreshEntry ==
  \A l \in LoadIds :
    LET ld == loads[l] IN
    Reached(ld, "getValue") =>
      /\ (ld.posts = 1) <=> ~HeldFresh(ld)
      /\ HeldFresh(ld) =>
            /\ ld.pc = "done"
            /\ CanParse(ld.result.response)
            /\ ld.fired.response = Parse(ld.result.response)
      /\ (~HeldFresh(ld) /\ Has(ld, "post", "resolved")) =>
            ld.primary = ServerResponse(ld.requestOptions)

\* C3: a read of the store that rejects, or a stored payload that does not
\* parse, is a cache miss: the primary request is issued and the failure is
\* not the error of the component.
C3_ReadFailureIsMiss ==
  \A l \in LoadIds :
    LET ld == loads[l] IN
    (\/ Has(ld, "getValue", "rejected")
     \/ (Has(ld, "getValue", "resolved") /\ HeldFresh(ld) /\ ~CanParse(ld.result.response))) =>
      /\ ld.posts = 1
      /\ ld.fired = Null \/ ld.fired.error \notin {Err("getValue"), Err("SyntaxError")}

\* C4: when the primary request fails the load ends with the error of the
\* component set to that failure, having issued one primary request,
\* whatever response the component held.
C4_PostFailureIsError ==
  \A l \in LoadIds :
    LET ld == loads[l] IN
    Has(ld, "post", "rejected") =>
      (ld.pc = "done" /\ ld.posts = 1 /\ ld.fired.error = Err("post"))

\* C5: when either thumbnail batch fails, the hits are as the primary request
\* returned them: no hit has a thumbnail.
C5_FailedBatchLeavesHits ==
  \A l \in LoadIds :
    LET ld == loads[l] IN
    (Has(ld, "executeAll", "rejected") \/ Has(ld, "executeAllBeta", "rejected")) =>
      ld.response.hits = ld.primary.hits

\* C6: when either thumbnail batch fails, the load still ends by committing
\* the response of the primary request for display, with a null error, and
\* fires dataChange with that response.
C6_FailedBatchStillRenders ==
  \A l \in LoadIds :
    LET ld == loads[l] IN
    (Has(ld, "executeAll", "rejected") \/ Has(ld, "executeAllBeta", "rejected")) =>
      /\ ld.pc = "done"
      /\ ld.primary = ServerResponse(ld.requestOptions)
      /\ ld.fired = [response |-> ld.response, error |-> Null]
      /\ [ld.response EXCEPT !.hits = Bare(@)] = ld.primary

\* C6 witness: a load whose list-item batch failed has ended.
C6_Witness ==
  \E l \in LoadIds :
    /\ Has(loads[l], "executeAllBeta", "rejected")
    /\ loads[l].pc = "done"
    /\ loads[l].fired.error = Null
    /\ loads[l].fired.response.hits # <<>>

\* C7: with fetchThumbnail on, the two batches do not depend on each other: a
\* load that executed the drive-item batch ends with the list-item batch
\* executed as well, whatever the outcome of the drive-item batch, and the
\* responses of a resolved list-item batch are merged.
C7_BothBatchesExecuted ==
  \A l \in LoadIds :
    LET ld == loads[l] IN
    /\ (ld.pc = "done" /\ Reached(ld, "executeAll")) => Reached(ld, "executeAllBeta")
    /\ (ld.pc = "done" /\ Has(ld, "executeAllBeta", "resolved")) =>
         \A id \in DOMAIN ld.thumbnailBatchBeta : ld.response.hits[id + 1].thumbnail # NoThumbnail

\* C8: no hit has a thumbnail while a thumbnail request issued for the
\* response, in either batch, has not resolved.
C8_NoThumbnailBeforeAllResolved ==
  \A l \in LoadIds :
    LET ld == loads[l] IN
    (ld.pc = "executeAllBeta" /\ DOMAIN ld.thumbnailBatchBeta # {}) => ~HasThumbnail(ld)

\* C9: the requests of the two batches are, together, one request for each
\* eligible hit (size > 0 or a .aspx webUrl, and a driveItem or a listItem),
\* with the 0-based index of the hit as id, and none for any other hit; once
\* both batches have resolved, each requested hit has the thumbnail url
\* returned for its id and every other hit has no thumbnail.
C9_OneRequestPerEligibleHit ==
  \A l \in LoadIds :
    LET ld == loads[l]
        hits == ld.primary.hits
        eligible == {i \in 0..(Len(hits) - 1) :
                       /\ (hits[i + 1].size > 0 \/ hits[i + 1].aspx)
                       /\ hits[i + 1].type \in {"driveItem", "listItem"}}
        returned(i) == IF hits[i + 1].type = "driveItem" THEN Url("thumbnail", i)
                       ELSE IF hits[i + 1].aspx THEN Url("page", i) ELSE Undefined
    IN
    /\ ld.pc \in {"executeAll", "executeAllBeta"} =>
         /\ DOMAIN ld.thumbnailBatch \cup DOMAIN ld.thumbnailBatchBeta = eligible
         /\ DOMAIN ld.thumbnailBatch \cap DOMAIN ld.thumbnailBatchBeta = {}
         /\ \A i \in DOMAIN ld.thumbnailBatch : ld.thumbnailBatch[i].endpoint = "thumbnails"
         /\ \A i \in DOMAIN ld.thumbnailBatchBeta : ld.thumbnailBatchBeta[i].endpoint = "pages"
    /\ (Has(ld, "executeAll", "resolved") /\ Has(ld, "executeAllBeta", "resolved")) =>
         \A i \in 0..(Len(hits) - 1) :
           ld.response.hits[i + 1] =
             [hits[i + 1] EXCEPT !.thumbnail =
                IF i \in eligible THEN [url |-> returned(i)] ELSE NoThumbnail]

\* C9 witness: three hits of which only the one at index 2 is eligible; its
\* thumbnail url is the one returned for id 2 and the others have none.
C9_Witness ==
  LET ld == loads[1] IN
  /\ Has(ld, "executeAll", "resolved") /\ Has(ld, "executeAllBeta", "resolved")
  /\ Len(ld.primary.hits) = 3
  /\ DOMAIN ld.thumbnailBatch = {2} /\ DOMAIN ld.thumbnailBatchBeta = {}
  /\ ld.response.hits[3].thumbnail = [url |-> Url("thumbnail", 2)]
  /\ ld.response.hits[1].thumbnail = NoThumbnail
  /\ ld.response.hits[2].thumbnail = NoThumbnail

\* C10: whenever paging is required, every page number of the window that
\* getActivePages returns lies between 1 and the number of pages,
\* ceil(total / size).
C10_WindowWithinPages ==
  pagingRequired(response) =>
    \A i \in DOMAIN getActivePages(response.total) :
      /\ 1 <= getActivePages(response.total)[i]
      /\ getActivePages(response.total)[i] <= Ceil(response.total, size)

\* The page numbers of a window are consecutive.
Consecutive(pages) == \A i \in 1..(Len(pages) - 1) : pages[i + 1] = pages[i] + 1

\* The page number is one of the window.
InWindow(pages, number) == \E i \in DOMAIN pages : pages[i] = number

\* C11: for pagingMax >= 3 and currentPage between 1 and the number of pages,
\* the window that getActivePages returns for the rendered footer is a run of
\* consecutive page numbers that contains currentPage and has at most
\* pagingMax entries.
C11_WindowAroundCurrentPage ==
  (/\ pagingRequired(response)
   /\ pagingMax >= 3
   /\ currentPage \in 1..Ceil(response.total, size)) =>
    LET pages == getActivePages(response.total) IN
    /\ Consecutive(pages)
    /\ InWindow(pages, currentPage)
    /\ Len(pages) <= pagingMax

\* C12: with total = 95, size = 10, currentPage = 5 and pagingMax = 7 the
\* footer is rendered with a button for page 1, a run of consecutive pages
\* around page 5 (pages 4, 5 and 6 are in it), the previous control and the
\* next control.
C12_ExampleFooter ==
  (/\ response # Null /\ response.hasHits /\ response.total = 95
   /\ size = 10 /\ currentPage = 5 /\ pagingMax = 7) =>
    LET footer == renderFooter(response) IN
    /\ footer # Undefined
    /\ InWindow(footer.pages, 1) \/ footer.first # Nothing
    /\ Consecutive(footer.pages)
    /\ InWindow(footer.pages, 4) /\ InWindow(footer.pages, 5) /\ InWindow(footer.pages, 6)
    /\ footer.previous # Nothing
    /\ footer.next # Nothing

\* C12 witness: the footer of the example is rendered from a response that
\* does not signal more results.
C12_Witness ==
  /\ response # Null /\ response.hasHits /\ response.total = 95
  /\ ~response.moreResultsAvailable
  /\ size = 10 /\ currentPage = 5 /\ pagingMax = 7
  /\ renderFooter(response) # Undefined

\* C13: the footer with the paging controls is rendered if and only if the
\* hits container of the response signals moreResultsAvailable or
\* currentPage * size < total.
C13_FooterIffPagingRequired ==
  (renderFooter(response) # Undefined) <=>
    /\ response # Null
    /\ response.hasHits
    /\ (response.moreResultsAvailable \/ currentPage * size < response.total)

\* C13 witness: the footer is rendered on the signal of the backend alone,
\* the count being exhausted.
C13_Witness ==
  /\ response # Null /\ response.hasHits
  /\ response.moreResultsAvailable
  /\ currentPage * size >= response.total
  /\ response.total > 0
  /\ renderFooter(response) # Undefined

\* C14, as stated: with currentPage = 1 and total <= size no footer is
\* rendered.
C14_NoPagingOnSinglePage ==
  (response # Null /\ response.hasHits /\ currentPage = 1 /\ response.total <= size) =>
    renderFooter(response) = Undefined

\* C14, amended: with currentPage = 1, total <= size and a hits container
\* that does not signal moreResultsAvailable, no footer is rendered.
C14_NoPagingOnSinglePageUnlessMore ==
  (/\ response # Null /\ response.hasHits /\ currentPage = 1 /\ response.total <= size
   /\ ~response.moreResultsAvailable) =>
    renderFooter(response) = Undefined

\* C14 witness: a response whose total equals the page size, on page 1.
C14_Witness ==
  /\ response # Null /\ response.hasHits /\ currentPage = 1
  /\ response.total = size
  /\ ~response.moreResultsAvailable
  /\ renderFooter(response) = Undefined

\* C15: whenever the footer is rendered and page 1 is not in the window, the
\* separate page 1 button is rendered with the "..." button, whose click sets
\* currentPage to currentPage - ceil(pagingMax / 2), a page that is at least 1.
C15_FirstPageAndDot ==
  LET footer == renderFooter(response) IN
  (footer # Undefined /\ ~InWindow(footer.pages, 1)) =>
    /\ footer.first # Nothing
    /\ footer.first.dot # Nothing
    /\ footer.first.dot.onPageClick = currentPage - Ceil(pagingMax, 2)
    /\ footer.first.dot.onPageClick >= 1

\* C16: when the footer is rendered, the previous control is shown unless
\* currentPage is the first page, and the next control unless currentPage is
\* the last page, ceil(total / size); a click on them changes currentPage by
\* exactly -1 and +1.
C16_PreviousAndNext ==
  /\ [](renderFooter(response) # Undefined =>
          /\ (renderFooter(response).previous # Nothing) <=> (currentPage # 1)
          /\ (renderFooter(response).next # Nothing) <=>
                (currentPage # Ceil(response.total, size)))
  /\ [][/\ OnPageBackClick(1) => currentPage' = currentPage - 1
        /\ OnPageNextClick(1) => currentPage' = currentPage + 1]_vars

\* The load ended in the catch of loadState.
Threw(ld) ==
  \/ Has(ld, "getValue", "rejected")
  \/ Has(ld, "post", "rejected")
  \/ Has(ld, "getValue", "resolved") /\ HeldFresh(ld) /\ ~CanParse(ld.result.response)
  \/ Has(ld, "post", "resolved") /\ fetchThumbnail /\ ~ld.primary.hasHits

\* C17: loads overlap without waiting for each other, and the last writer
\* wins: whenever a load ends without an exception, whatever other load is in
\* flight or has ended before, the displayed response becomes the response of
\* that load and, when it fetched it and the cache is enabled, the entry of
\* its key becomes that response, stamped with the current time; a load
\* served from the cache writes no entry.
C17_LastWriterWins ==
  [][\A l \in LoadIds :
       (loads[l].pc \notin {"idle", "done"} /\ loads'[l].pc = "done" /\ ~Threw(loads'[l])) =>
         /\ response' = loads'[l].response
         /\ (loads'[l].posts = 1 /\ shouldUpdateCache) =>
              /\ loads'[l].key \in DOMAIN store'
              /\ store'[loads'[l].key] =
                   [response |-> Stringify(loads'[l].response), timeCached |-> now]
         /\ loads'[l].posts = 0 => store' = store]_vars

\* C17 witness: a load of "b" started while a load of "a" was in flight and
\* ended first; the load of "a" ended last, and its response is the one
\* displayed and its entry the one stored, the query of the component being
\* "b".
C17_Witness ==
  /\ loads[1].pc = "done" /\ loads[2].pc = "done"
  /\ ~Threw(loads[1]) /\ ~Threw(loads[2])
  /\ loads[1].settings.queryString = "a" /\ loads[2].settings.queryString = "b"
  /\ queryString = "b"
  /\ loads[1].posts = 1 /\ loads[2].posts = 1
  /\ response = loads[1].response /\ response # loads[2].response
  /\ loads[1].key \in DOMAIN store /\ loads[2].key \in DOMAIN store
  /\ store[loads[1].key].response = Stringify(loads[1].response)
  /\ store[loads[1].key].timeCached > store[loads[2].key].timeCached

\* The load has built its request and its key.
Keyed(ld) == ld.key # Null

\* C18: two loads whose requests differ in the version, the entity types, the
\* scopes, the query string, from, size, the fields or the query template
\* have different cache keys.
C18_KeyIdentifiesRequest ==
  \A l1, l2 \in LoadIds :
    LET ld1 == loads[l1]
        ld2 == loads[l2]
    IN
    (/\ Keyed(ld1) /\ Keyed(ld2)
     /\ \/ ld1.settings.version # ld2.settings.version
        \/ ld1.requestOptions.entityTypes # ld2.requestOptions.entityTypes
        \/ ld1.settings.scopes # ld2.settings.scopes
        \/ ld1.requestOptions.queryString # ld2.requestOptions.queryString
        \/ ld1.requestOptions.from # ld2.requestOptions.from
        \/ ld1.requestOptions.size # ld2.requestOptions.size
        \/ ld1.requestOptions.fields # ld2.requestOptions.fields
        \/ ld1.requestOptions.queryTemplate # ld2.requestOptions.queryTemplate) =>
      ld1.key # ld2.key

\* The settings of C19: all properties that a load finds but the scopes.
Listed(settings) ==
  [version |-> settings.version, entityTypes |-> settings.entityTypes,
   queryString |-> settings.queryString, currentPage |-> settings.currentPage,
   size |-> settings.size, fields |-> settings.fields,
   enableTopResults |-> settings.enableTopResults,
   contentSources |-> settings.contentSources, queryTemplate |-> settings.queryTemplate]

\* C19: two loads that find the same version, entity types, query string,
\* current page, size, fields, top-results flag, content sources and query
\* template build the same cache key.
C19_SameSettingsSameKey ==
  \A l1, l2 \in LoadIds :
    (/\ Keyed(loads[l1]) /\ Keyed(loads[l2])
     /\ Listed(loads[l1].settings) = Listed(loads[l2].settings)) =>
      loads[l1].key = loads[l2].key

\* C19 witness: on the beta endpoint, with a query template, fields and
\* external items, the second load started with every listed setting as the
\* first load found it and with other scopes; the keys are the same and the
\* second load was served what the first one stored.
C19_Witness ==
  /\ Keyed(loads[1]) /\ Keyed(loads[2])
  /\ loads[1].settings.version = "beta" /\ loads[1].settings.queryTemplate # ""
  /\ loads[1].settings.fields # Undefined
  /\ loads[1].settings.entityTypes = <<"externalItem">>
  /\ Listed(loads[1].settings) = Listed(loads[2].settings)
  /\ loads[1].settings.scopes # loads[2].settings.scopes
  /\ loads[1].key = loads[2].key
  /\ loads[2].pc = "done" /\ loads[2].posts = 0

\* The load is in flight.
InFlight(ld) == ld.pc \notin {"idle", "done"}

C22_SizeAtMostMax ==
  /\ [](size <= MAX_PAGE_SIZE)
  /\ [][\A value \in SizeValues :
          SetSize(value) =>
            size' = IF value > MAX_PAGE_SIZE THEN MAX_PAGE_SIZE ELSE value]_vars

\* C22 witness: after assignments of values below and above 1000 the size is
\* 1000, which only the assignment of 1001 gives, and a load has requested
\* pages of that size.
C22_Witness ==
  /\ size = MAX_PAGE_SIZE
  /\ Keyed(loads[1]) /\ loads[1].requestOptions.size = [v |-> MAX_PAGE_SIZE]

\* C23: the period of the freshness check is cacheInvalidationPeriod when it
\* is not zero, else the period of the responses store when that is not zero,
\* else the default period: an entry that a load read is used, without a
\* primary request, exactly when its age is below that period, so a zero
\* period of the component alone does not make an entry stale.
C23_PeriodFallsBack ==
  \A l \in LoadIds :
    LET ld == loads[l]
        period == IF cacheInvalidationPeriod # 0 THEN cacheInvalidationPeriod
                  ELSE IF config.response.invalidationPeriod # 0
                       THEN config.response.invalidationPeriod
                       ELSE config.defaultInvalidationPeriod
    IN (Has(ld, "getValue", "resolved") /\ ld.result # Null) =>
         /\ (ld.posts = 0) <=> (ld.age < period)
         /\ (cacheInvalidationPeriod = 0 /\ ld.age = 0 /\ period > 0) => ld.posts = 0

\* C23 witness: with the periods of the component and of the responses store
\* both zero, a load used an entry one tick old, under the default period,
\* and the component displays it.
C23_Witness ==
  \E l \in LoadIds :
    LET ld == loads[l] IN
    /\ cacheInvalidationPeriod = 0
    /\ Has(ld, "getValue", "resolved") /\ ld.result # Null /\ ld.age = 1
    /\ config.response.invalidationPeriod = 0
    /\ ld.posts = 0 /\ ld.pc = "done" /\ CanParse(ld.result.response)
    /\ response = Parse(ld.result.response)

\* C24: a load reads the store only if, when it starts, cacheEnabled and the
\* two flags of the configuration are on and no refresh is in progress; the
\* store changes only while cacheEnabled and the two flags are on; so while
\* cacheEnabled is false no load starts a read and none writes.
C24_StoreUsedOnlyWhenEnabled ==
  /\ [](\A l \in LoadIds :
          (loads[l].pc = "getValue" \/ Reached(loads[l], "getValue")) =>
            (config.isEnabled /\ config.response.isEnabled /\ ~loads[l].refreshing))
  /\ [][\A l \in LoadIds :
          (loads[l].pc # "getValue" /\ loads'[l].pc = "getValue") =>
            (cacheEnabled /\ config.isEnabled /\ config.response.isEnabled /\ ~isRefreshing)]_vars
  /\ [][store' # store =>
          (cacheEnabled /\ config.isEnabled /\ config.response.isEnabled)]_vars

\* C24 witness: with all flags on, a load that found no refresh in progress
\* has read the store, missed and written its entry, and a load that a
\* refresh started afterwards has gone to the primary request without a read.
C24_Witness ==
  \E l1, l2 \in LoadIds :
    /\ cacheEnabled /\ config.isEnabled /\ config.response.isEnabled
    /\ Has(loads[l1], "getValue", "resolved") /\ loads[l1].posts = 1 /\ loads[l1].pc = "done"
    /\ loads[l1].key \in DOMAIN store
    /\ loads[l2].refreshing /\ loads[l2].pc = "post" /\ ~Reached(loads[l2], "getValue")

\* The load is past the thumbnail batches: the first one failed, or the
\* second one has settled.
AugmentationFinished(ld) == Has(ld, "executeAll", "rejected") \/ Reached(ld, "executeAllBeta")

\* C25: the store changes only in the step that ends a load whose primary
\* request succeeded and, with fetchThumbnail on, whose thumbnail batches
\* have finished (resolved or failed); the entry written, under the key of
\* that load, is the JSON text of the response the step commits for display,
\* no other entry changes, and a load whose primary request failed leaves
\* the store as it is.
C25_WrittenAfterAugmentation ==
  /\ [][store' # store =>
          \E l \in LoadIds :
            /\ InFlight(loads[l]) /\ loads'[l].pc = "done"
            /\ Has(loads'[l], "post", "resolved")
            /\ fetchThumbnail => AugmentationFinished(loads'[l])
            /\ response' = loads'[l].response
            /\ loads'[l].key \in DOMAIN store'
            /\ store'[loads'[l].key] = [response |-> Stringify(response'), timeCached |-> now]
            /\ \A k \in DOMAIN store : k # loads'[l].key => store'[k] = store[k]]_vars
  /\ [][\A l \in LoadIds :
          (InFlight(loads[l]) /\ Has(loads'[l], "post", "rejected")) => store' = store]_vars

\* C25 witness: a load whose two batches resolved has ended; the response
\* displayed is its merged response, with thumbnails that the primary request
\* did not return, and the entry of its key holds the JSON text of it.
C25_Witness ==
  \E l \in LoadIds :
    LET ld == loads[l] IN
    /\ ld.pc = "done" /\ Has(ld, "executeAllBeta", "resolved")
    /\ HasThumbnail(ld) /\ ld.response # ld.primary
    /\ response = ld.response
    /\ ld.key \in DOMAIN store
    /\ store[ld.key].response = Stringify(response)

\* C27: the error and the response are never both set: a load that ends
\* while the component holds a response leaves the error null and fires
\* dataChange so, and in every state an error goes with no held response.
C27_ErrorOnlyWithoutResponse ==
  /\ error # Null => response = Null
  /\ \A l \in LoadIds :
       (loads[l].pc = "done" /\ loads[l].fired # Null) =>
         (loads[l].fired.response # Null => loads[l].fired.error = Null)

\* C27 witness: a load whose primary request failed has ended while the
\* component held a response: the response is still held and displayed, the
\* error is null, and dataChange carried the two.
C27_Witness ==
  \E l \in LoadIds :
    /\ loads[l].pc = "done" /\ Has(loads[l], "post", "rejected")
    /\ response # Null /\ error = Null
    /\ loads[l].fired = [response |-> response, error |-> Null]

\* C28: from page 1, whatever paging controls are clicked while the total
\* stays the same, the current page is at least 1 and at most
\* ceil(total / size), so from is not negative and not past the last page.
C28_PageWithinTotal ==
  (response # Null /\ response.hasHits /\ response.total > 0) =>
    /\ currentPage >= 1 /\ currentPage <= Ceil(response.total, size)
    /\ from(currentPage) >= 0 /\ from(currentPage) < response.total

\* C29: however loads overlap, every entry of the store holds the response
\* to the request whose options are in its key; the key of a load is built
\* from the properties found when it starts and stays the same while the
\* load is in flight, whatever is assigned meanwhile.
C29_EntryHoldsResponseOfItsKey ==
  /\ [](\A k \in DOMAIN store :
          CanParse(store[k].response) =>
            k.requestOptions = JsonRequest(Parse(store[k].response).request))
  /\ [](\A l \in LoadIds :
          Keyed(loads[l]) =>
            /\ loads[l].key.endpoint = loads[l].settings.version \o SEARCH_ENDPOINT
            /\ loads[l].key.requestOptions = JsonRequest(loads[l].requestOptions)
            /\ loads[l].requestOptions.queryString = loads[l].settings.queryString)
  /\ [][\A l \in LoadIds :
          InFlight(loads[l]) =>
            (loads'[l].key = loads[l].key /\ loads'[l].requestOptions = loads[l].requestOptions)]_vars

\* C29 witness: the query was changed from "a" to "b" while the load of "a"
\* was in flight; that load ended after the load of "b" started, and the
\* entry under its key holds the response to the request for "a", the entry
\* under the key of the other load the response to the request for "b".
C29_Witness ==
  /\ loads[1].pc = "done" /\ loads[1].settings.queryString = "a" /\ loads[1].posts = 1
  /\ loads[2].pc = "done" /\ loads[2].settings.queryString = "b" /\ loads[2].posts = 1
  /\ queryString = "b"
  /\ loads[1].key \in DOMAIN store /\ loads[2].key \in DOMAIN store
  /\ Parse(store[loads[1].key].response).request.queryString = "a"
  /\ Parse(store[loads[2].key].response).request.queryString = "b"

\* C30: thumbnail batches are issued only by a load that issued the primary
\* request; a load served from a fresh entry issues none and displays the
\* entry as it is stored; and an entry is written with thumbnails on its hits
\* only by a load that ran with fetchThumbnail on and whose two batches
\* resolved.
C30_ThumbnailsOnlyFromMiss ==
  /\ [](\A l \in LoadIds :
          LET ld == loads[l] IN
          /\ (ld.pc \in {"executeAll", "executeAllBeta"} \/ Reached(ld, "executeAll")) =>
                Has(ld, "post", "resolved")
          /\ (ld.pc = "done" /\ Has(ld, "getValue", "resolved") /\ HeldFresh(ld)
                /\ CanParse(ld.result.response)) =>
                /\ ld.posts = 0 /\ ~Reached(ld, "executeAll")
                /\ ld.fired.response = Parse(ld.result.response))
  /\ [][\A l \in LoadIds :
          (/\ InFlight(loads[l]) /\ loads'[l].pc = "done"
           /\ store' # store /\ HasThumbnail(loads'[l])) =>
            /\ fetchThumbnail
            /\ Has(loads'[l], "executeAll", "resolved")
            /\ Has(loads'[l], "executeAllBeta", "resolved")]_vars

\* C21: every change of the held response, by a load or by a hard refresh,
\* is followed by a dataChange event that carries the response held then.
\* Stated at rest: when no load is in flight nothing is left that would fire
\* the event, so the last event has carried the response the component
\* holds.
C21_ChangeIsAnnounced ==
  (\A l \in LoadIds : ~InFlight(loads[l])) => dataChange = response

\* C26: an assignment to queryString of a value other than the current one
\* sets currentPage to 1, sets the loading flag and calls requestStateUpdate
\* once, with force true; an assignment of the current value changes
\* nothing and calls nothing.
C26_QueryStringSetter ==
  [][\A value \in Queries, l \in LoadIds :
       SetQueryString(value, l) =>
         IF value # queryString
         THEN /\ queryString' = value
              /\ currentPage' = 1
              /\ isLoadingState'
              /\ requested' = <<TRUE>>
         ELSE /\ requested' = <<>>
              /\ UNCHANGED <<props, isRefreshing, response, error, isLoadingState,
                             dataChange, env, store, now, loads>>]_vars

\* C26 witness: the query has just been changed from "a", shown at page 2,
\* to "b": the page is 1, the flag is set, one forced update was requested
\* and the load of page 1 of "b" has started while that of page 2 of "a" is
\* still there.
C26_Witness ==
  \E l1, l2 \in LoadIds :
    /\ queryString = "b" /\ currentPage = 1 /\ isLoadingState /\ requested = <<TRUE>>
    /\ loads[l1].settings # Null
    /\ loads[l1].settings.queryString = "a" /\ loads[l1].settings.currentPage = 2
    /\ loads[l2].pc = "post"
    /\ loads[l2].settings.queryString = "b" /\ loads[l2].settings.currentPage = 1

====
